---- MODULE Spec2Model ----
(***************************************************************************)
(* Model of src/ping_monitor.py: class PingMonitor.                        *)
(*                                                                         *)
(* The main thread runs run(): it fills host_states, then loops            *)
(* "while self.running: check_all_hosts(); time.sleep(interval)".          *)
(* check_all_hosts walks config['hosts'] in order; for each host it calls  *)
(* check_host (the ping) and then applies the boolean result to the        *)
(* host's state dict.  SIGINT/SIGTERM run the handler shutdown() inside    *)
(* the main thread, between any two steps of it.                           *)
(*                                                                         *)
(* Variables below the line "history" are not fields of the program: they  *)
(* record what the probes and the notifier calls of a run have been, so    *)
(* that properties about runs of probes can be written as state formulas.  *)
(***************************************************************************)
EXTENDS Integers, Sequences, FiniteSets, TLC

\* Bounds of the model.
NumHosts == 2
MaxThreshold == 2
MaxClock == 2

VARIABLES
    \* program state
    pc,                 \* position of the main thread
    idx,                \* position of check_all_hosts' for loop in config['hosts'] (1-based)
    current_status,     \* local current_status of check_all_hosts (result of check_host)
    running,            \* self.running
    host_states,        \* self.host_states: ip -> state dict
    failure_threshold,  \* config['monitoring']['failure_threshold']
    recovery_threshold, \* config['monitoring']['recovery_threshold']
    \* the notifier: what the last step handed to send_telegram
    msg,
    shutdown_sent,      \* number of "monitoring stopped" messages handed to send_telegram
    \* history
    interrupted,        \* where the main thread was when a signal or an exception ended the loop
    fail_run,           \* per host: number of consecutive failed probes applied last, up to failure_threshold
    success_run,        \* per host: number of consecutive successful probes applied last, up to recovery_threshold
    clean,              \* per host: the run of disagreeing probes that began in a state with both streaks 0
    first_notif,        \* per host: kind of the first transition notification attempted
    last_notif,         \* per host: kind of the last transition notification attempted
    since_flip,         \* per host: number of probes disagreeing with the status since its last flip
    down_at,            \* per host: the time of its last Down transition
    last_ping,          \* what ping() did in the probe whose result awaits application
    probe_log,          \* the hosts pinged in the current cycle, in order
    apply_log,          \* the hosts whose result was applied in the current cycle, in order
    stop_requested,     \* a stop signal has been delivered
    now                 \* the clock datetime.now() reads

vars == <<pc, idx, current_status, running, host_states, failure_threshold,
          recovery_threshold, msg, shutdown_sent, interrupted, fail_run,
          success_run, clean, first_notif, last_notif, since_flip, down_at,
          last_ping, probe_log, apply_log, stop_requested, now>>

----------------------------------------------------------------------------
\* Data

\* config['hosts']: the registry, in order; a host is identified by its ip.
config_hosts == [i \in 1..NumHosts |-> i]

IPs == {config_hosts[i] : i \in 1..Len(config_hosts)}

\* Variant of InitialHostState: hosts assumed down at startup.
InitialHostStateDown == [status |-> FALSE, fail_count |-> 0, success_count |-> 0]

\* run(): the state every host is given before the first cycle.
InitialHostState == [status |-> TRUE, fail_count |-> 0, success_count |-> 0]

\* check_all_hosts: the default of self.host_states.get(ip, ...).
DefaultHostState == [status |-> TRUE, fail_count |-> 0, success_count |-> 0]

GetState(ip) ==
    IF ip \in DOMAIN host_states THEN host_states[ip] ELSE DefaultHostState

\* What ping() can do: answer with a latency, time out (None), report an
\* error (False), or raise.
PingOutcomes == {"reply", "timeout", "error", "raises"}

\* Variant of CheckHostStatus: "result is not None" alone.
CheckHostStatusNotNone(outcome) == outcome \in {"reply", "error"}

\* check_host: status = result is not None and result is not False; an
\* exception of ping is caught and gives False.
CheckHostStatus(outcome) == outcome = "reply"

NoMsg == [kind |-> "none", host |-> 0, delivered |-> FALSE]

\* Variant of RecoveredMessage: the message also tells how long the host was
\* down.
RecoveredMessageWithDowntime(ip, t, d) ==
    [kind |-> "recovered", host |-> ip, time |-> t, delivered |-> d,
     downtime |-> t - down_at[ip]]

\* Lines 203-208: the Recovered message: name, ip and datetime.now().
RecoveredMessage(ip, t, d) ==
    [kind |-> "recovered", host |-> ip, time |-> t, delivered |-> d]

\* Lines 216-221: the Down message: name, ip and datetime.now().
DownMessage(ip, t, d) ==
    [kind |-> "down", host |-> ip, time |-> t, delivered |-> d]

TransitionMessage(kind, ip, t, d) ==
    IF kind = "down" THEN DownMessage(ip, t, d)
    ELSE IF kind = "recovered" THEN RecoveredMessage(ip, t, d)
    ELSE NoMsg

\* What the HTTP call of send_telegram can do: answer ok, answer not ok, or
\* raise (no connection, timeout, no JSON).
TransportOutcomes == {"ok", "refused", "raises"}

\* send_telegram: True when the answer is ok, False otherwise; an exception
\* of the call is caught and gives False.
SendTelegram(transport) == transport = "ok"

\* The values send_telegram can return.
Delivered == {SendTelegram(t) : t \in TransportOutcomes}

Min(a, b) == IF a < b THEN a ELSE b

----------------------------------------------------------------------------
\* check_all_hosts, the body of the for loop after check_host: the new state
\* dict and the transition message handed to send_telegram ("none": no call).

\* Variant of ApplyAgreeing: the streak opposite to the status is reset.
ApplyAgreeingResetsOpposite(state, cur) ==
    IF cur
    THEN [state EXCEPT !.fail_count = 0]
    ELSE [state EXCEPT !.success_count = 0]

\* Variant of ApplyAgreeing: "+= 1" where the code has "= 0".
ApplyAgreeingCounts(state, cur) ==
    IF cur
    THEN [state EXCEPT !.success_count = @ + 1]
    ELSE [state EXCEPT !.fail_count = @ + 1]

\* Lines 222-227: the probe agrees with the stored status.
ApplyAgreeing(state, cur) ==
    IF cur
    THEN [state EXCEPT !.success_count = 0]
    ELSE [state EXCEPT !.fail_count = 0]

\* Variant of ThresholdReached: ">" where the code has ">=".
ThresholdExceeded(count, threshold) == count > threshold

\* Lines 200 and 213: the comparison of a streak with its threshold.
ThresholdReached(count, threshold) == count >= threshold

\* Variant of BumpStreak: "= 1" where the code has "+= 1".
BumpStreakSetsOne(state, cur) ==
    IF cur
    THEN [state EXCEPT !.success_count = 1, !.fail_count = 0]
    ELSE [state EXCEPT !.fail_count = 1, !.success_count = 0]

\* Lines 197-198 and 210-211: the streak is bumped, the other one reset.
BumpStreak(state, cur) ==
    IF cur
    THEN [state EXCEPT !.success_count = @ + 1, !.fail_count = 0]
    ELSE [state EXCEPT !.fail_count = @ + 1, !.success_count = 0]

\* Variant of Disagrees: "==" where the code has "!=".
DisagreesInverted(state, cur) == cur = state.status

\* Line 195: the probe disagrees with the stored status.
Disagrees(state, cur) == cur # state.status

\* Variant of Apply: a transition leaves its streak as it is (lines 202 and
\* 215 missing).
ApplyNoResetOnFlip(state, cur) ==
    IF Disagrees(state, cur)
    THEN LET s1 == BumpStreak(state, cur) IN
         IF cur
         THEN IF ThresholdReached(s1.success_count, recovery_threshold)
              THEN [state  |-> [s1 EXCEPT !.status = TRUE],
                    notify |-> "recovered"]
              ELSE [state |-> s1, notify |-> "none"]
         ELSE IF ThresholdReached(s1.fail_count, failure_threshold)
              THEN [state  |-> [s1 EXCEPT !.status = FALSE],
                    notify |-> "down"]
              ELSE [state |-> s1, notify |-> "none"]
    ELSE [state |-> ApplyAgreeing(state, cur), notify |-> "none"]

\* Variant of Apply: a Down transition leaves the status as it is (line 214
\* missing).
ApplyNoStatusFlip(state, cur) ==
    IF Disagrees(state, cur)
    THEN LET s1 == BumpStreak(state, cur) IN
         IF cur
         THEN IF ThresholdReached(s1.success_count, recovery_threshold)
              THEN [state  |-> [s1 EXCEPT !.status = TRUE, !.success_count = 0],
                    notify |-> "recovered"]
              ELSE [state |-> s1, notify |-> "none"]
         ELSE IF ThresholdReached(s1.fail_count, failure_threshold)
              THEN [state  |-> [s1 EXCEPT !.fail_count = 0],
                    notify |-> "down"]
              ELSE [state |-> s1, notify |-> "none"]
    ELSE [state |-> ApplyAgreeing(state, cur), notify |-> "none"]

\* Lines 195-227: the probe result cur applied to a state dict.
Apply(state, cur) ==
    IF Disagrees(state, cur)
    THEN LET s1 == BumpStreak(state, cur) IN
         IF cur
         THEN IF ThresholdReached(s1.success_count, recovery_threshold)
              THEN [state  |-> [s1 EXCEPT !.status = TRUE, !.success_count = 0],
                    notify |-> "recovered"]
              ELSE [state |-> s1, notify |-> "none"]
         ELSE IF ThresholdReached(s1.fail_count, failure_threshold)
              THEN [state  |-> [s1 EXCEPT !.status = FALSE, !.fail_count = 0],
                    notify |-> "down"]
              ELSE [state |-> s1, notify |-> "none"]
    ELSE [state |-> ApplyAgreeing(state, cur), notify |-> "none"]

\* Variant of CommitState: the transition is kept only when it was delivered.
CommitStateIfDelivered(old, new, delivered) == IF delivered THEN new ELSE old

\* Lines 208, 221 and 229: the value send_telegram returns is dropped; the
\* state dict as updated is what host_states gets.
CommitState(old, new, delivered) == new

\* Variant of StoreState: one state dict shared by all hosts.
StoreStateShared(hs, ip, state) == [h \in DOMAIN hs \cup {ip} |-> state]

\* Line 229: self.host_states[ip] = state.
StoreState(hs, ip, state) ==
    [h \in DOMAIN hs \cup {ip} |-> IF h = ip THEN state ELSE hs[h]]

\* send_shutdown_notification: the number of messages it hands to
\* send_telegram, given self.running at the time of the call.
ShutdownMessages(run) == IF ~run THEN 0 ELSE 1

----------------------------------------------------------------------------
\* History bookkeeping

BothStreaksZero(state) == state.fail_count = 0 /\ state.success_count = 0

NoClean == [kind |-> "none", len |-> 0, notes |-> 0]

\* The clean run of host ip after a probe with result cur has been applied to
\* old, with notification note.  A run is clean when it began in a state with
\* both streaks 0 and the status its probes disagree with; it is followed up
\* to the threshold of its direction.
NextClean(c, old, cur, note) ==
    LET kind  == IF cur THEN "success" ELSE "fail"
        limit == IF cur THEN recovery_threshold ELSE failure_threshold
        want  == IF cur THEN "recovered" ELSE "down"
        n     == IF note = want THEN 1 ELSE 0
    IN  IF c.kind = kind /\ c.len < limit
        THEN [kind |-> kind, len |-> c.len + 1, notes |-> Min(c.notes + n, 2)]
        ELSE IF BothStreaksZero(old) /\ old.status # cur
        THEN [kind |-> kind, len |-> 1, notes |-> n]
        ELSE NoClean

----------------------------------------------------------------------------
\* Init: the state after PingMonitor.__init__: no host state yet, running,
\* the startup message attempted.

Init ==
    /\ pc = "start"
    /\ idx = 0
    /\ current_status = TRUE
    /\ running = TRUE
    /\ host_states = [h \in {} |-> InitialHostState]
    /\ failure_threshold \in 1..MaxThreshold
    /\ recovery_threshold \in 1..MaxThreshold
    /\ \E d \in Delivered : msg = [kind |-> "startup", host |-> 0, delivered |-> d]
    /\ shutdown_sent = 0
    /\ interrupted = "none"
    /\ fail_run = [h \in IPs |-> 0]
    /\ success_run = [h \in IPs |-> 0]
    /\ clean = [h \in IPs |-> NoClean]
    /\ first_notif = [h \in IPs |-> "none"]
    /\ last_notif = [h \in IPs |-> "none"]
    /\ since_flip = [h \in IPs |-> 0]
    /\ down_at = [h \in IPs |-> 0]
    /\ last_ping = "none"
    /\ probe_log = << >>
    /\ apply_log = << >>
    /\ stop_requested = FALSE
    /\ now = 0

host_history == <<fail_run, success_run, clean, first_notif, last_notif,
                  since_flip, down_at>>
history == <<host_history, last_ping, probe_log, apply_log>>
config == <<failure_threshold, recovery_threshold>>

\* run(), lines 239-240: every host gets its initial state.
RunInit ==
    /\ pc = "start"
    /\ host_states' = [h \in IPs |-> InitialHostState]
    /\ pc' = "while"
    /\ msg' = NoMsg
    /\ UNCHANGED <<idx, current_status, running, config, shutdown_sent,
                   interrupted, history, stop_requested, now>>

\* run(), line 245: the loop test; a true test enters check_all_hosts.
WhileRunning ==
    /\ pc = "while"
    /\ IF running
       THEN pc' = "check" /\ idx' = 1
       ELSE pc' = "returned" /\ idx' = idx
    /\ msg' = NoMsg
    /\ IF running
       THEN probe_log' = << >> /\ apply_log' = << >>
       ELSE UNCHANGED <<probe_log, apply_log>>
    /\ UNCHANGED <<current_status, running, host_states, config,
                   shutdown_sent, interrupted, host_history, last_ping,
                   stop_requested, now>>

\* check_all_hosts, line 192: check_host pings host idx.
CheckHost ==
    /\ pc = "check"
    /\ \E o \in PingOutcomes :
          /\ current_status' = CheckHostStatus(o)
          /\ last_ping' = o
    /\ probe_log' = Append(probe_log, config_hosts[idx])
    /\ pc' = "apply"
    /\ msg' = NoMsg
    /\ UNCHANGED <<idx, running, host_states, config, shutdown_sent,
                   interrupted, host_history, apply_log, stop_requested, now>>

\* Variant of AfterApply: the for loop left after its first host.
AfterApplyBreak == "sleep"

\* The place of the main thread after host idx has been handled.
AfterApply == IF idx < Len(config_hosts) THEN "check" ELSE "sleep"

\* check_all_hosts, lines 193-229: the result is applied to the host's state,
\* a transition is handed to send_telegram (whose result, d, is ignored).
ProbeApplied(d) ==
    LET ip  == config_hosts[idx]
        old == GetState(ip)
        r   == Apply(old, current_status)
        new == CommitState(old, r.state, r.notify = "none" \/ d)
    IN  /\ msg' = TransitionMessage(r.notify, ip, now, d)
        /\ host_states' = StoreState(host_states, ip, new)
        /\ last_ping' = "none"
        /\ apply_log' = Append(apply_log, ip)
        /\ idx' = idx + 1
        /\ pc' = AfterApply
        /\ UNCHANGED <<current_status, running, config, shutdown_sent,
                       interrupted, probe_log, stop_requested, now>>

\* The record of the host's probes and messages, kept beside the step above.
HistoryRecorded(d) ==
    LET ip      == config_hosts[idx]
        old     == GetState(ip)
        r       == Apply(old, current_status)
        new     == CommitState(old, r.state, r.notify = "none" \/ d)
        flipped == new.status # old.status
    IN  /\ fail_run' = [fail_run EXCEPT ![ip] =
              IF current_status THEN 0 ELSE Min(@ + 1, failure_threshold)]
        /\ success_run' = [success_run EXCEPT ![ip] =
              IF current_status THEN Min(@ + 1, recovery_threshold) ELSE 0]
        /\ clean' = [clean EXCEPT ![ip] =
              NextClean(@, old, current_status, r.notify)]
        /\ first_notif' = [first_notif EXCEPT ![ip] =
              IF @ = "none" THEN r.notify ELSE @]
        /\ last_notif' = [last_notif EXCEPT ![ip] =
              IF r.notify = "none" THEN @ ELSE r.notify]
        /\ since_flip' = [since_flip EXCEPT ![ip] =
              IF flipped THEN 0
              ELSE IF current_status # old.status
              THEN Min(@ + 1, MaxThreshold) ELSE @]

\* The time at which the host went down, kept beside the step above.
DownAtRecorded(d) ==
    LET ip      == config_hosts[idx]
        old     == GetState(ip)
        r       == Apply(old, current_status)
        new     == CommitState(old, r.state, r.notify = "none" \/ d)
        flipped == new.status # old.status
    IN  down_at' = [down_at EXCEPT ![ip] =
              IF flipped THEN (IF new.status THEN @ ELSE now)
              ELSE IF new.status THEN 0 ELSE @]

ApplyProbe ==
    /\ pc = "apply"
    /\ \E d \in Delivered :
          ProbeApplied(d) /\ HistoryRecorded(d) /\ DownAtRecorded(d)

\* The same step with the time of the Down transition as its only record.
ApplyProbeTimed ==
    /\ pc = "apply"
    /\ \E d \in Delivered : ProbeApplied(d) /\ DownAtRecorded(d)
    /\ UNCHANGED <<fail_run, success_run, clean, first_notif, last_notif,
                   since_flip>>

\* The same step with no record kept.
ApplyProbeBare ==
    /\ pc = "apply"
    /\ \E d \in Delivered : ProbeApplied(d)
    /\ UNCHANGED host_history

\* run(), line 247: time.sleep returns.
Sleep ==
    /\ pc = "sleep"
    /\ pc' = "while"
    /\ msg' = NoMsg
    /\ UNCHANGED <<idx, current_status, running, host_states, config,
                   shutdown_sent, interrupted, history, stop_requested, now>>

\* run(), line 247: time.sleep returns and the clock has moved on.
SleepTick ==
    /\ pc = "sleep"
    /\ now < MaxClock
    /\ now' = now + 1
    /\ pc' = "while"
    /\ msg' = NoMsg
    /\ UNCHANGED <<idx, current_status, running, host_states, config,
                   shutdown_sent, interrupted, history, stop_requested>>

\* Variant of AfterException: a try statement inside the while loop.
AfterExceptionContinue == "while"

\* The place of the main thread after the handler of run() for an unexpected
\* exception (lines 251-258): the try statement encloses the while loop.
AfterException == "returned"

\* run(), lines 251-258: an exception raised in the loop body outside the
\* try blocks of check_host and send_telegram (time.sleep on a bad interval)
\* is caught, the error message is attempted.
UnexpectedException ==
    /\ pc = "sleep"
    /\ \E d \in Delivered : msg' = [kind |-> "error", host |-> 0, delivered |-> d]
    /\ interrupted' = pc
    /\ pc' = AfterException
    /\ UNCHANGED <<idx, current_status, running, host_states, config,
                   shutdown_sent, history, stop_requested, now>>

\* check_all_hosts, lines 197-200 and 210-213: an exception raised by the
\* threshold comparison (a threshold of the wrong type) comes after the
\* streak has been bumped in the state dict, which is the one host_states
\* holds.
ExceptionInApply ==
    /\ pc = "apply"
    /\ LET ip == config_hosts[idx] old == GetState(ip) IN
        /\ Disagrees(old, current_status)
        /\ host_states' = StoreState(host_states, ip,
                                     BumpStreak(old, current_status))
    /\ \E d \in Delivered : msg' = [kind |-> "error", host |-> 0, delivered |-> d]
    /\ interrupted' = pc
    /\ pc' = AfterException
    /\ UNCHANGED <<idx, current_status, running, config, shutdown_sent,
                   history, stop_requested, now>>

\* Variant of Shutdown: a handler that logs the signal and does nothing else.
ShutdownIgnored ==
    /\ pc \notin {"exited", "returned"}
    /\ ~stop_requested
    /\ stop_requested' = TRUE
    /\ interrupted' = pc
    /\ msg' = NoMsg
    /\ UNCHANGED <<pc, idx, current_status, running, host_states, config,
                   shutdown_sent, history, now>>

\* Variant of AfterShutdown: a handler that returns instead of exiting.
AfterShutdownResume == pc

\* The place of the main thread after the signal handler: sys.exit(0) raises
\* SystemExit at the interrupted point, which no "except Exception" catches.
AfterShutdown == "exited"

\* shutdown(signum, frame), lines 231-235, run on SIGINT or SIGTERM while the
\* process is alive.
Shutdown ==
    /\ pc \notin {"exited", "returned"}
    /\ running' = FALSE
    /\ LET n == ShutdownMessages(running') IN
        /\ shutdown_sent' = shutdown_sent + n
        /\ \E d \in Delivered :
              msg' = IF n = 0 THEN NoMsg
                     ELSE [kind |-> "shutdown", host |-> 0, delivered |-> d]
    /\ interrupted' = pc
    /\ stop_requested' = TRUE
    /\ pc' = AfterShutdown
    /\ UNCHANGED <<idx, current_status, host_states, config, history, now>>

Next ==
    \/ RunInit
    \/ WhileRunning
    \/ CheckHost
    \/ ApplyProbe
    \/ Sleep
    \/ UnexpectedException
    \/ ExceptionInApply
    \/ Shutdown

Spec == Init /\ [][Next]_vars

\* The same program with a clock that moves while the loop sleeps.
NextClock ==
    \/ RunInit
    \/ WhileRunning
    \/ CheckHost
    \/ ApplyProbeTimed
    \/ Sleep
    \/ SleepTick
    \/ UnexpectedException
    \/ ExceptionInApply
    \/ Shutdown

SpecClock == Init /\ [][NextClock]_vars

\* The steps of the main thread in run(): it is never suspended for good
\* (a ping and a sleep return after their timeout).
LoopStep == RunInit \/ WhileRunning \/ CheckHost \/ ApplyProbeBare \/ Sleep

NextLive ==
    \/ RunInit
    \/ WhileRunning
    \/ CheckHost
    \/ ApplyProbeBare
    \/ Sleep
    \/ UnexpectedException
    \/ ExceptionInApply
    \/ Shutdown

LiveSpec == Init /\ [][NextLive]_vars /\ WF_vars(LoopStep)

----------------------------------------------------------------------------
\* Properties

StatusIn(hs, h) == IF h \in DOMAIN hs THEN hs[h].status ELSE DefaultHostState.status

LoopPlaces == {"while", "check", "apply", "sleep"}

\* A step that applies the probe of host config_hosts[idx].
ApplyStep == pc = "apply" /\ idx' = idx + 1

\* C1: a host's status flips from up to down only on a failed probe that
\* completes a run of failure_threshold consecutive failed probes of that
\* host (so [fail, success, fail, success] with threshold 2 flips nothing).
DownOnlyAfterFailureRun ==
    [][\A h \in IPs :
          (StatusIn(host_states, h) /\ ~StatusIn(host_states', h))
              => fail_run'[h] >= failure_threshold]_vars

\* C2: a down host's status flips back to up only on a successful probe that
\* completes a run of recovery_threshold consecutive successful probes of
\* that host.
UpOnlyAfterSuccessRun ==
    [][\A h \in IPs :
          (~StatusIn(host_states, h) /\ StatusIn(host_states', h))
              => success_run'[h] >= recovery_threshold]_vars

\* C3: a probe that agrees with the host's status leaves the opposite streak
\* at 0: fail_count after a successful probe of an up host, success_count
\* after a failed probe of a down host.
AgreeingProbeResetsOppositeStreak ==
    [][LET ip == config_hosts[idx] IN
          (ApplyStep /\ current_status = GetState(ip).status)
              => IF current_status
                 THEN host_states'[ip].fail_count = 0
                 ELSE host_states'[ip].success_count = 0]_vars

\* C4: once a stop request delivered while the loop was running has been
\* handled, the "monitoring stopped" message has been handed to the notifier
\* exactly once.
StopSendsShutdownOnce ==
    (~running /\ interrupted \in LoopPlaces) => shutdown_sent = 1

\* A step in which the handler of run() catches an unexpected exception.
ExceptionStep == interrupted = "none" /\ interrupted' # "none" /\ running'

\* C5 (as stated): after an unexpected exception has been caught the main
\* thread is back in the loop, going on to the next cycle.
ExceptionKeepsLoopRunning ==
    [][ExceptionStep => pc' \in LoopPlaces]_vars

\* C5 (amended): an unexpected exception in the loop body is caught, the
\* error message is attempted, and run() returns: no step follows, so no
\* later cycle runs and no host is probed again.
ExceptionEndsMonitoring ==
    [][/\ ExceptionStep => (msg'.kind = "error" /\ pc' = "returned")
       /\ pc # "returned"]_vars

\* C5 witness: the loop has ended on an exception after hosts were probed.
ExceptionEndsMonitoringWitness ==
    /\ pc = "returned"
    /\ msg.kind = "error"
    /\ interrupted = "sleep"
    /\ \A h \in IPs : fail_run[h] + success_run[h] > 0

\* A stop request has arrived while check_all_hosts was in progress.
StoppedInCycle == ~running /\ interrupted \in {"check", "apply"}

\* C6 (as stated): a stop request that arrives during a cycle lets the cycle
\* finish: every host of the registry has had its result applied.
StopLetsCycleFinish == StoppedInCycle => idx > Len(config_hosts)

\* C6 (amended): a stop request that arrives during a cycle aborts it: the
\* process exits at once, host config_hosts[idx] and those after it get no
\* result applied in that cycle, and nothing runs afterwards.
StopAbortsCycle ==
    StoppedInCycle =>
        /\ pc = "exited"
        /\ idx <= Len(config_hosts)
        /\ ~ENABLED Next

\* C6 witness: stopped after the first host of a cycle, before the ping of
\* the second.
StopAbortsCycleWitness ==
    /\ ~running
    /\ pc = "exited"
    /\ interrupted = "check"
    /\ idx = 2
    /\ fail_run[config_hosts[1]] + success_run[config_hosts[1]] > 0
    /\ fail_run[config_hosts[2]] + success_run[config_hosts[2]] = 0

\* C7: streak exclusivity: no host ever has fail_count > 0 and
\* success_count > 0 at once.
StreakExclusivity ==
    \A h \in DOMAIN host_states :
        ~(host_states[h].fail_count > 0 /\ host_states[h].success_count > 0)

\* C7 witness: an up host keeps a failure streak across a successful probe,
\* while a down host keeps a success streak across a failed one.
StreakExclusivityWitness ==
    \E h, g \in DOMAIN host_states :
        /\ host_states[h].status /\ host_states[h].fail_count > 0
        /\ success_run[h] > 0
        /\ ~host_states[g].status /\ host_states[g].success_count > 0
        /\ fail_run[g] > 0

\* C8: from an up host with both streaks 0, failure_threshold consecutive
\* failed probes leave it up after each of the first failure_threshold-1,
\* flip it to down on the last, with exactly one Down notification attempt;
\* symmetrically for recovery_threshold successful probes of a down host.
CleanRunFlipsExactlyAtThreshold ==
    \A h \in IPs :
        /\ clean[h].kind = "fail" =>
              /\ clean[h].len <= failure_threshold
              /\ clean[h].len < failure_threshold =>
                    (StatusIn(host_states, h) /\ clean[h].notes = 0)
              /\ clean[h].len = failure_threshold =>
                    (~StatusIn(host_states, h) /\ clean[h].notes = 1)
        /\ clean[h].kind = "success" =>
              /\ clean[h].len <= recovery_threshold
              /\ clean[h].len < recovery_threshold =>
                    (~StatusIn(host_states, h) /\ clean[h].notes = 0)
              /\ clean[h].len = recovery_threshold =>
                    (StatusIn(host_states, h) /\ clean[h].notes = 1)

\* C8 witness: both thresholds 2; one host has just gone down on its second
\* failed probe, another has just recovered on its second successful one.
CleanRunWitness ==
    /\ failure_threshold = 2
    /\ recovery_threshold = 2
    /\ \E h, g \in IPs :
          /\ clean[h] = [kind |-> "fail", len |-> 2, notes |-> 1]
          /\ clean[g] = [kind |-> "success", len |-> 2, notes |-> 1]

\* C9: until its first probe has been applied every registered host is up
\* with both streaks 0, whatever that probe returned, and the first
\* transition notification of a host is never Recovered.
StartsUpFirstNotificationDown ==
    \A h \in IPs :
        /\ (pc \in LoopPlaces /\ fail_run[h] = 0 /\ success_run[h] = 0)
              => (h \in DOMAIN host_states /\ host_states[h] =
                    [status |-> TRUE, fail_count |-> 0, success_count |-> 0])
        /\ first_notif[h] # "recovered"

\* C9 witness: a host whose first notification was Down has recovered since,
\* while the first probe of another host, a failure, is about to be applied.
StartsUpWitness ==
    \E h, g \in IPs :
        /\ first_notif[h] = "down" /\ StatusIn(host_states, h)
        /\ pc = "apply" /\ config_hosts[idx] = g /\ ~current_status
        /\ first_notif[g] = "none"

\* C10: a probe that agrees with the host's status changes neither the
\* status nor hands a transition message to the notifier.
AgreeingProbeKeepsStatus ==
    [][LET ip == config_hosts[idx] IN
          (ApplyStep /\ current_status = GetState(ip).status)
              => /\ StatusIn(host_states', ip) = StatusIn(host_states, ip)
                 /\ msg' = NoMsg]_vars

\* C10 witness: a down host with a success streak of 1 has had a failed
\* (agreeing) probe applied and is still down.
AgreeingProbeWitness ==
    \E h \in DOMAIN host_states :
        /\ ~host_states[h].status
        /\ host_states[h].success_count = 1
        /\ fail_run[h] >= 1

\* C11: whether a transition message is delivered or not, the host gets the
\* state the probe gives it, the main thread stays in the loop (no exception
\* reaches it), and a message of a kind is not attempted again for a host
\* unless the opposite one came in between.
FailedSendChangesNothing ==
    [][ApplyStep =>
          LET ip == config_hosts[idx] IN
          /\ host_states'[ip] = Apply(GetState(ip), current_status).state
          /\ pc' \in LoopPlaces
          /\ msg'.kind \in {"down", "recovered"} =>
                last_notif[ip] # msg'.kind]_vars

\* C11 witness: a Recovered message has just failed to be delivered, after a
\* Down message of the same host; the host is up all the same.
FailedSendWitness ==
    /\ msg.kind = "recovered"
    /\ ~msg.delivered
    /\ first_notif[msg.host] = "down"
    /\ StatusIn(host_states, msg.host)
    /\ pc \in LoopPlaces

\* C13: once a stop signal has been delivered no cycle begins: the loop test
\* never again leads into check_all_hosts, and no host is pinged in a cycle
\* begun after the signal.
NoCycleAfterStop ==
    [][stop_requested => ~(pc = "while" /\ pc' = "check")]_vars

\* C13 witness: the signal came after a complete cycle, during the sleep; the
\* next cycle has not begun.
NoCycleAfterStopWitness ==
    /\ stop_requested
    /\ interrupted = "sleep"
    /\ apply_log = config_hosts
    /\ pc = "exited"

\* C14: a probe in which ping reports an error or raises gives status False
\* from check_host, which returns normally, and leaves the host in the state
\* a timed-out probe leaves it in.
ProbeErrorIsUnreachable ==
    /\ []((pc = "apply" /\ last_ping \in {"error", "raises"})
            => (current_status = FALSE
                /\ current_status = CheckHostStatus("timeout")))
    /\ [][(ApplyStep /\ last_ping \in {"error", "raises"}) =>
            LET ip == config_hosts[idx] IN
            host_states'[ip] =
                Apply(GetState(ip), CheckHostStatus("timeout")).state]_vars

\* C14 witness: ping raised in the probe of a down host with a success
\* streak; check_host has returned False.
ProbeErrorWitness ==
    /\ pc = "apply"
    /\ last_ping = "raises"
    /\ ~current_status
    /\ ~GetState(config_hosts[idx]).status
    /\ GetState(config_hosts[idx]).success_count > 0

\* C15: a cycle pings and applies the hosts of the registry once each, in
\* registry order, and the sleep begins only when all have been applied.
CycleProbesEveryHostOnce ==
    /\ pc = "check" =>
          /\ probe_log = SubSeq(config_hosts, 1, idx - 1)
          /\ apply_log = SubSeq(config_hosts, 1, idx - 1)
    /\ pc = "apply" =>
          /\ probe_log = SubSeq(config_hosts, 1, idx)
          /\ apply_log = SubSeq(config_hosts, 1, idx - 1)
    /\ pc = "sleep" =>
          /\ probe_log = config_hosts
          /\ apply_log = config_hosts

\* C15 witness: a later cycle (a host is down already) has reached its sleep
\* with every host applied.
CycleWitness ==
    /\ pc = "sleep"
    /\ apply_log = config_hosts
    /\ \E h \in IPs : ~StatusIn(host_states, h) /\ last_notif[h] = "down"
    /\ \E h \in IPs : last_notif[h] = "recovered"

\* C16: applying the probe of one host leaves the state dict of every other
\* host as it was.
OtherHostsUntouched ==
    [][ApplyStep =>
          \A h \in IPs \ {config_hosts[idx]} :
              /\ h \in DOMAIN host_states'
              /\ host_states'[h] = GetState(h)]_vars

\* C16 witness: after the same number of cycles one host is down and another
\* is up with a failure streak.
OtherHostsWitness ==
    \E h, g \in IPs :
        /\ ~StatusIn(host_states, h)
        /\ StatusIn(host_states, g) /\ GetState(g).fail_count > 0
        /\ pc = "sleep"

\* C12 (as stated): a down host's state holds lastDownAt, the time of its
\* Down transition, and a Recovered message carries the downtime, the time
\* elapsed since that transition.
LastDownAtAndDowntime ==
    /\ \A h \in DOMAIN host_states :
          ~host_states[h].status =>
              /\ "lastDownAt" \in DOMAIN host_states[h]
              /\ host_states[h].lastDownAt = down_at[h]
    /\ msg.kind = "recovered" =>
          /\ "downtime" \in DOMAIN msg
          /\ msg.downtime = now - down_at[msg.host]

\* C12 (amended): a state dict holds status, fail_count and success_count
\* and no time; a Down or Recovered message carries the host and the time of
\* its own transition, and no downtime.
TransitionCarriesOnlyItsTime ==
    /\ \A h \in DOMAIN host_states :
          DOMAIN host_states[h] = {"status", "fail_count", "success_count"}
    /\ msg.kind \in {"down", "recovered"} =>
          /\ DOMAIN msg = {"kind", "host", "time", "delivered"}
          /\ msg.time = now

\* C12 witness: a Recovered message for a host that went down at time 1 and
\* has been down for a while.
TransitionTimeWitness ==
    /\ msg.kind = "recovered"
    /\ down_at[msg.host] = 1
    /\ now > down_at[msg.host]

\* The state of host h is not one an exception left half-applied.
Settled == ~(pc = "returned" /\ interrupted = "apply")

Threshold(cur) == IF cur THEN recovery_threshold ELSE failure_threshold

StreakBounds ==
    Settled =>
        \A h \in DOMAIN host_states :
            /\ host_states[h].status => host_states[h].success_count = 0
            /\ ~host_states[h].status => host_states[h].fail_count = 0
            /\ 0 <= host_states[h].fail_count
            /\ host_states[h].fail_count < failure_threshold
            /\ 0 <= host_states[h].success_count
            /\ host_states[h].success_count < recovery_threshold

\* C18 witness: both thresholds 2; a host is up one failure short of Down,
\* another is down one success short of Recovered.
StreakBoundsWitness ==
    \E h, g \in DOMAIN host_states :
        /\ host_states[h].status /\ host_states[h].fail_count = failure_threshold - 1
        /\ ~host_states[g].status
        /\ host_states[g].success_count = recovery_threshold - 1
        /\ failure_threshold = 2 /\ recovery_threshold = 2

\* C19: a transition message is attempted for a host exactly in the step
\* that flips its status, Down when it goes down and Recovered when it comes
\* up, and the messages of a host alternate, beginning with Down.
NotifiedIffFlipped ==
    [][IF ApplyStep
       THEN LET ip      == config_hosts[idx]
                flipped == StatusIn(host_states', ip) # StatusIn(host_states, ip)
            IN  /\ flipped <=> msg'.kind \in {"down", "recovered"}
                /\ msg'.kind \in {"down", "recovered"} => msg'.host = ip
                /\ msg'.kind = "down" =>
                      /\ ~StatusIn(host_states', ip)
                      /\ last_notif[ip] \in {"none", "recovered"}
                /\ msg'.kind = "recovered" =>
                      /\ StatusIn(host_states', ip)
                      /\ last_notif[ip] = "down"
       ELSE /\ msg'.kind \notin {"down", "recovered"}
            /\ \A h \in IPs : StatusIn(host_states', h) = StatusIn(host_states, h)]_vars

\* C19 witness: a host has just gone down for the second time: its Recovered
\* message lies between two Down messages.
NotifiedWitness ==
    /\ msg.kind = "down"
    /\ first_notif[msg.host] = "down"
    /\ since_flip[msg.host] = 0
    /\ \E g \in IPs : g # msg.host /\ last_notif[g] = "recovered"
    /\ clean[msg.host].kind = "fail"

\* The probe of host h awaits application.
Pending(h) == pc = "apply" /\ config_hosts[idx] = h

\* C20: if no stop signal and no exception ever comes, a host whose probes
\* fail from some point on is eventually down for good, and a host whose
\* probes succeed from some point on is eventually up for good.
EventuallyConfirmed ==
    \A h \in IPs :
        [](~stop_requested /\ interrupted = "none") =>
            /\ <>[](Pending(h) => ~current_status) => <>[](~StatusIn(host_states, h))
            /\ <>[](Pending(h) => current_status)
                  => <>[](pc # "start" /\ StatusIn(host_states, h))

\* C20 witness: with failure_threshold 2 a host that has been confirmed down
\* has failed once more, while another host is up.
EventuallyConfirmedWitness ==
    \E h, g \in DOMAIN host_states :
        /\ failure_threshold = 2
        /\ Pending(h) /\ ~current_status
        /\ ~host_states[h].status
        /\ host_states[g].status /\ host_states[g].fail_count = 0

====
